---- MODULE Spec2Model ----
(***************************************************************************)
(* Color-ls: a directory lister (project/color-ls/src/main.rs, with the    *)
(* earlier variant src/main.rs and the alternative name decorator of       *)
(* newInterface.rs).  Text is a sequence of one-character strings; an      *)
(* escape sequence written by the colored crate is one element of it.      *)
(***************************************************************************)
EXTENDS Integers, Sequences, FiniteSets, TLC

VARIABLES
    opt,        \* Opt: the parsed command line
    env,        \* the environment variables should_use_color consults
    i,          \* run: index of the next path of the loop (0-based)
    stdout,     \* text printed so far
    stderr,     \* error lines printed so far
    exit_code,  \* process exit status, -1 while running
    listings,   \* history: one record per list_directory call of run
    call,       \* a pure function under check and its arguments
    ret,        \* its result
    pc          \* position: "run", "exit", "args", "ret"

vars == <<opt, env, i, stdout, stderr, exit_code, listings, call, ret, pc>>

----------------------------------------------------------------------------
(* Bounds of the model *)

\* longest list of path arguments
MaxPaths == 2

----------------------------------------------------------------------------
(* Characters and text *)

\* the ASCII characters file names and output are written with
Digits == <<"0", "1", "2", "3", "4", "5", "6", "7", "8", "9">>

Upper == <<"A", "B", "C", "D", "E", "F", "G", "H", "I", "J", "K", "L", "M",
           "N", "O", "P", "Q", "R", "S", "T", "U", "V", "W", "X", "Y", "Z">>

Lower == <<"a", "b", "c", "d", "e", "f", "g", "h", "i", "j", "k", "l", "m",
           "n", "o", "p", "q", "r", "s", "t", "u", "v", "w", "x", "y", "z">>

Punct == <<<<" ", 32>>, <<"(", 40>>, <<")", 41>>, <<"-", 45>>, <<".", 46>>, <<"/", 47>>,
           <<":", 58>>, <<"?", 63>>, <<"[", 91>>, <<"]", 93>>, <<"_", 95>>>>

Range(f) == {f[k] : k \in DOMAIN f}

CharSet == Range(Digits) \cup Range(Upper) \cup Range(Lower) \cup {p[1] : p \in Range(Punct)}

\* byte value of a character
OrdOf ==
    [c \in CharSet |->
        IF c \in Range(Digits) THEN 47 + (CHOOSE k \in 1..10 : Digits[k] = c)
        ELSE IF c \in Range(Upper) THEN 64 + (CHOOSE k \in 1..26 : Upper[k] = c)
        ELSE IF c \in Range(Lower) THEN 96 + (CHOOSE k \in 1..26 : Lower[k] = c)
        ELSE (CHOOSE p \in Range(Punct) : p[1] = c)[2]]

Ord(c) == OrdOf[c]

\* str::to_lowercase on ASCII text
LowerChar(c) == IF c \in Range(Upper) THEN Lower[Ord(c) - 64] ELSE c

to_lowercase(s) == [k \in 1..Len(s) |-> LowerChar(s[k])]

\* Ordering of str::cmp: byte-wise lexicographic; -1, 0, 1
RECURSIVE cmp(_, _)
cmp(a, b) ==
    IF a = <<>> /\ b = <<>> THEN 0
    ELSE IF a = <<>> THEN -1
    ELSE IF b = <<>> THEN 1
    ELSE IF Ord(Head(a)) < Ord(Head(b)) THEN -1
    ELSE IF Ord(Head(a)) > Ord(Head(b)) THEN 1
    ELSE cmp(Tail(a), Tail(b))

\* str::starts_with(char)
starts_with(name, c) == Len(name) > 0 /\ name[1] = c

Digit(d) == Digits[d + 1]

\* usize/u64::to_string for a number below 2^31
RECURSIVE to_string(_)
to_string(n) == IF n < 10 THEN <<Digit(n)>> ELSE to_string(n \div 10) \o <<Digit(n % 10)>>

\* {:>w}: right-align in a field of width w
RECURSIVE pad_left(_, _)
pad_left(s, w) == IF Len(s) >= w THEN s ELSE pad_left(<<" ">> \o s, w)

----------------------------------------------------------------------------
(* Colors of the colored crate *)

\* the foreground escape sequence of a Color, as one element of text
Esc(c) ==
    CASE c = "Red" -> "ESC[31m"
      [] c = "Green" -> "ESC[32m"
      [] c = "Blue" -> "ESC[34m"
      [] c = "Magenta" -> "ESC[35m"
      [] c = "Cyan" -> "ESC[36m"
      [] c = "BrightBlack" -> "ESC[90m"
      [] c = "BrightGreen" -> "ESC[92m"
      [] c = "BrightYellow" -> "ESC[93m"
      [] c = "BrightCyan" -> "ESC[96m"

Reset == "ESC[0m"

Colors == {"Red", "Green", "Blue", "Magenta", "Cyan", "BrightBlack", "BrightGreen",
           "BrightYellow", "BrightCyan"}

EscapeSet == {Esc(c) : c \in Colors} \cup {Reset}

\* Colorize::color(..).to_string(): the text between the escape of the color and a reset
color(s, c) == <<Esc(c)>> \o s \o <<Reset>>

\* text with every escape sequence removed
StripEscapes(s) == SelectSeq(s, LAMBDA t : t \notin EscapeSet)

----------------------------------------------------------------------------
(* Color Classifier *)

\* Option<T>
None == [some |-> FALSE]

Some(v) == [some |-> TRUE, val |-> v]

\* libc mode bits
S_IXUSR == 64

S_IXGRP == 8

S_IXOTH == 1

\* mode & bit != 0, for a bit that is a power of two
HasBit(mode, bit) == (mode \div bit) % 2 = 1

\* index of the last "." of a name, 0 when it has none
LastDot(name) ==
    IF \E k \in 1..Len(name) : name[k] = "."
    THEN CHOOSE k \in 1..Len(name) : name[k] = "." /\ \A j \in (k + 1)..Len(name) : name[j] # "."
    ELSE 0

\* a byte of a raw name that is not valid UTF-8
BadByte == "<FF>"

\* OsStr::to_str / OsString::into_string: the text, when every byte decodes
to_str(raw) == IF \A k \in 1..Len(raw) : raw[k] \in CharSet THEN Some(raw) ELSE None

\* Path::extension on the final component of a path: the part after the last ".",
\* None when the component has no "." or only a leading one
extension(path) ==
    IF path = <<".", ".">> \/ LastDot(path) <= 1 THEN None
    ELSE Some(SubSeq(path, LastDot(path) + 1, Len(path)))

\* file.path.extension().and_then(|s| s.to_str())
extension_str(file) ==
    IF extension(file.path).some THEN to_str(extension(file.path).val) ELSE None

ArchiveExt ==
    {<<"t", "a", "r">>, <<"t", "g", "z">>, <<"a", "r", "c">>, <<"a", "r", "j">>, 
     <<"t", "a", "z">>, <<"l", "h", "a">>, <<"l", "z", "4">>, <<"l", "z", "h">>, 
     <<"l", "z", "m", "a">>, <<"t", "l", "z">>, <<"t", "x", "z">>, <<"t", "z", "o">>, 
     <<"t", "7", "z">>, <<"z", "i", "p">>, <<"z">>, <<"d", "z">>, <<"g", "z">>, 
     <<"l", "r", "z">>, <<"l", "z">>, <<"l", "z", "o">>, <<"x", "z">>, 
     <<"z", "s", "t">>, <<"t", "z", "s", "t">>, <<"b", "z", "2">>, <<"b", "z">>, 
     <<"t", "b", "z">>, <<"t", "b", "z", "2">>, <<"t", "z">>, <<"d", "e", "b">>, 
     <<"r", "p", "m">>, <<"j", "a", "r">>, <<"w", "a", "r">>, <<"e", "a", "r">>, 
     <<"s", "a", "r">>, <<"r", "a", "r">>, <<"a", "l", "z">>, <<"a", "c", "e">>, 
     <<"z", "o", "o">>, <<"c", "p", "i", "o">>, <<"7", "z">>, <<"r", "z">>, 
     <<"c", "a", "b">>, <<"w", "i", "m">>, <<"s", "w", "m">>, <<"d", "w", "m">>, 
     <<"e", "s", "d">>}

ImageExt ==
    {<<"j", "p", "g">>, <<"j", "p", "e", "g">>, <<"m", "j", "p", "g">>, 
     <<"m", "j", "p", "e", "g">>, <<"g", "i", "f">>, <<"b", "m", "p">>, 
     <<"p", "b", "m">>, <<"p", "g", "m">>, <<"p", "p", "m">>, <<"t", "g", "a">>, 
     <<"x", "b", "m">>, <<"x", "p", "m">>, <<"t", "i", "f">>, <<"t", "i", "f", "f">>, 
     <<"p", "n", "g">>, <<"s", "v", "g">>, <<"s", "v", "g", "z">>, <<"m", "n", "g">>, 
     <<"p", "c", "x">>, <<"m", "o", "v">>, <<"m", "p", "g">>, <<"m", "p", "e", "g">>, 
     <<"m", "2", "v">>, <<"m", "k", "v">>, <<"w", "e", "b", "m">>, <<"o", "g", "m">>, 
     <<"m", "p", "4">>, <<"m", "4", "v">>, <<"m", "p", "4", "v">>, <<"v", "o", "b">>, 
     <<"q", "t">>, <<"n", "u", "v">>, <<"w", "m", "v">>, <<"a", "s", "f">>, 
     <<"r", "m">>, <<"r", "m", "v", "b">>, <<"f", "l", "c">>, <<"a", "v", "i">>, 
     <<"f", "l", "i">>, <<"f", "l", "v">>, <<"g", "l">>, <<"d", "l">>, 
     <<"x", "c", "f">>, <<"x", "w", "d">>, <<"y", "u", "v">>, <<"c", "g", "m">>, 
     <<"e", "m", "f">>, <<"o", "g", "v">>, <<"o", "g", "x">>}

AudioExt ==
    {<<"a", "a", "c">>, <<"a", "u">>, <<"f", "l", "a", "c">>, <<"m", "4", "a">>, 
     <<"m", "i", "d">>, <<"m", "i", "d", "i">>, <<"m", "k", "a">>, <<"m", "p", "3">>, 
     <<"m", "p", "c">>, <<"o", "g", "g">>, <<"r", "a">>, <<"w", "a", "v">>, 
     <<"o", "g", "a">>, <<"o", "p", "u", "s">>, <<"s", "p", "x">>, 
     <<"x", "s", "p", "f">>}

\* mutant of get_file_color: the extension is looked at before the executable bits
get_file_color_ext_first(file) ==
    IF file.is_dir THEN Some("BrightCyan")
    ELSE IF file.is_symlink THEN Some("Red")
    ELSE IF extension_str(file).some /\ to_lowercase(extension_str(file).val) \in ArchiveExt
         THEN Some("Red")
    ELSE IF HasBit(file.metadata.mode, S_IXUSR) \/ HasBit(file.metadata.mode, S_IXGRP) \/ HasBit(file.metadata.mode, S_IXOTH)
         THEN Some("BrightGreen")
    ELSE None

\* mutant of get_file_color: an unlisted extension gets no color
get_file_color_no_default(file) ==
    IF file.is_dir THEN Some("BrightCyan")
    ELSE IF file.is_symlink THEN Some("Red")
    ELSE IF HasBit(file.metadata.mode, S_IXUSR) \/ HasBit(file.metadata.mode, S_IXGRP)
              \/ HasBit(file.metadata.mode, S_IXOTH)
         THEN Some("BrightGreen")
    ELSE IF extension_str(file).some
         THEN LET ext == to_lowercase(extension_str(file).val)
              IN  IF ext \in ArchiveExt THEN Some("Red")
                  ELSE IF ext \in ImageExt THEN Some("Magenta")
                  ELSE IF ext \in AudioExt THEN Some("Cyan")
                  ELSE None
    ELSE None

\* get_file_color of project/color-ls/src/main.rs
get_file_color(file) ==
    IF file.is_dir THEN Some("BrightCyan")
    ELSE IF file.is_symlink THEN Some("Red")
    ELSE IF HasBit(file.metadata.mode, S_IXUSR) \/ HasBit(file.metadata.mode, S_IXGRP) \/ HasBit(file.metadata.mode, S_IXOTH)
         THEN Some("BrightGreen")
    ELSE IF extension_str(file).some
         THEN LET ext == to_lowercase(extension_str(file).val)
              IN  IF ext \in ArchiveExt THEN Some("Red")
                  ELSE IF ext \in ImageExt THEN Some("Magenta")
                  ELSE IF ext \in AudioExt THEN Some("Cyan")
                  ELSE Some("BrightYellow")
    ELSE None

\* get_file_color of src/main.rs, the earlier variant
get_file_color_v1(file) ==
    IF file.is_dir THEN Some("Blue")
    ELSE IF file.is_symlink THEN Some("Cyan")
    ELSE IF HasBit(file.metadata.mode, S_IXUSR) \/ HasBit(file.metadata.mode, S_IXGRP) \/ HasBit(file.metadata.mode, S_IXOTH)
         THEN Some("Green")
    ELSE IF extension_str(file).some
         THEN LET ext == to_lowercase(extension_str(file).val)
              IN  IF ext \in ArchiveExt THEN Some("Red")
                  ELSE IF ext \in ImageExt THEN Some("Magenta")
                  ELSE IF ext \in AudioExt THEN Some("Cyan")
                  ELSE None
    ELSE None

----------------------------------------------------------------------------
(* Sizes.  A u64 byte count is the sequence of its base-1024 digits, lowest  *)
(* first, without leading zero digits (0 is <<>>).  An f64 holding such a    *)
(* count divided k times by 1024.0 is the digits with k of them behind the   *)
(* point: the division by a power of two is exact.                           *)

\* the base of the unit sequence
Kilo == 1024

\* the most base-1024 digits of a u64: 2^64 = 16 * 1024^6
U64Digits == 7

\* the top digit of a seven-digit u64 is below this
U64TopLimit == 16

\* the bits of the mantissa of an f64
F64Mantissa == 53

IsU64(n) ==
    /\ Len(n) <= U64Digits
    /\ \A k \in 1..Len(n) : n[k] \in 0..(Kilo - 1)
    /\ Len(n) > 0 => n[Len(n)] # 0
    /\ Len(n) = U64Digits => n[U64Digits] < U64TopLimit

\* without leading zero digits
RECURSIVE Norm(_)
Norm(n) == IF n # <<>> /\ n[Len(n)] = 0 THEN Norm(SubSeq(n, 1, Len(n) - 1)) ELSE n

\* digits that outgrew the base, carried upward
RECURSIVE Carry(_, _)
Carry(n, c) ==
    IF n = <<>> THEN (IF c = 0 THEN <<>> ELSE <<c>>)
    ELSE <<(Head(n) + c) % Kilo>> \o Carry(Tail(n), (Head(n) + c) \div Kilo)

\* the number of bits of a digit
RECURSIVE BitLen(_)
BitLen(x) == IF x = 0 THEN 0 ELSE 1 + BitLen(x \div 2)

Bits(n) == IF n = <<>> THEN 0 ELSE 10 * (Len(n) - 1) + BitLen(n[Len(n)])

\* size as f64: the nearest value with a 53-bit mantissa, ties to even
as_f64(n) ==
    IF Bits(n) <= F64Mantissa THEN n
    ELSE LET s == Bits(n) - F64Mantissa
             low == n[1] + Kilo * n[2]
             r == low % (2 ^ s)
             odd == (low \div (2 ^ s)) % 2 = 1
             up == r > 2 ^ (s - 1) \/ (r = 2 ^ (s - 1) /\ odd)
             low2 == low - r + (IF up THEN 2 ^ s ELSE 0)
         IN  Carry(<<low2 % Kilo, low2 \div Kilo>> \o SubSeq(n, 3, Len(n)), 0)

\* quotient of a digit sequence by 10, highest digit first, rem carried in
RECURSIVE Quot10(_, _)
Quot10(n, rem) ==
    IF n = <<>> THEN <<>>
    ELSE LET cur == rem * Kilo + n[Len(n)]
         IN  Quot10(SubSeq(n, 1, Len(n) - 1), cur % 10) \o <<cur \div 10>>

RECURSIVE Mod10(_, _)
Mod10(n, rem) ==
    IF n = <<>> THEN rem ELSE Mod10(SubSeq(n, 1, Len(n) - 1), (rem * Kilo + n[Len(n)]) % 10)

RECURSIVE DecimalDigits(_)
DecimalDigits(n) ==
    IF n = <<>> THEN <<>> ELSE DecimalDigits(Norm(Quot10(n, 0))) \o <<Digit(Mod10(n, 0))>>

\* u64::to_string
u64_to_string(n) == IF n = <<>> THEN <<"0">> ELSE DecimalDigits(n)

\* a fraction of k digits times ten: k digits and, last, the digit carried out
RECURSIVE TimesTen(_, _)
TimesTen(fr, c) ==
    IF fr = <<>> THEN <<c>>
    ELSE <<(Head(fr) * 10 + c) % Kilo>> \o TimesTen(Tail(fr), (Head(fr) * 10 + c) \div Kilo)

\* a fraction of k digits against one half: -1 below, 0 equal, 1 above
HalfCmp(fr) ==
    IF fr = <<>> THEN -1
    ELSE IF fr[Len(fr)] > Kilo \div 2 THEN 1
    ELSE IF fr[Len(fr)] < Kilo \div 2 THEN -1
    ELSE IF \E k \in 1..(Len(fr) - 1) : fr[k] # 0 THEN 1
    ELSE 0

\* the integer part of an f64 [digits, point]
RECURSIVE IntValue(_)
IntValue(n) == IF n = <<>> THEN 0 ELSE Head(n) + Kilo * IntValue(Tail(n))

IntPart(v) == IntValue(SubSeq(v.digits, v.point + 1, Len(v.digits)))

FracPart(v) == SubSeq(v.digits, 1, v.point)

\* {:.0}: the nearest integer, ties to even
fmt_fixed0(v) ==
    LET c == HalfCmp(FracPart(v))
        up == c = 1 \/ (c = 0 /\ IntPart(v) % 2 = 1)
    IN  to_string(IntPart(v) + (IF up THEN 1 ELSE 0))

\* {:.1}: the nearest tenth, ties to even
fmt_fixed1(v) ==
    LET t == TimesTen(FracPart(v), 0)
        d == t[Len(t)]
        c == HalfCmp(SubSeq(t, 1, Len(t) - 1))
        up == c = 1 \/ (c = 0 /\ d % 2 = 1)
        d2 == d + (IF up THEN 1 ELSE 0)
    IN  to_string(IntPart(v) + d2 \div 10) \o <<".", Digit(d2 % 10)>>

UNITS == <<"B", "K", "M", "G", "T", "P">>

\* size >= 1024.0
AtLeastKilo(v) == Len(v.digits) - v.point >= 2

\* mutant of scale_loop: the loop test is size > 1024.0
RECURSIVE scale_loop_strict(_)
scale_loop_strict(v) ==
    IF /\ AtLeastKilo(v)
       /\ v.digits # [k \in 1..(v.point + 2) |-> IF k = v.point + 2 THEN 1 ELSE 0]
       /\ v.point < Len(UNITS) - 1
    THEN scale_loop_strict([v EXCEPT !.point = @ + 1])
    ELSE v

\* the while loop of format_size: the unit index it ends with
RECURSIVE scale_loop(_)
scale_loop(v) ==
    IF AtLeastKilo(v) /\ v.point < Len(UNITS) - 1
    THEN scale_loop([v EXCEPT !.point = @ + 1])
    ELSE v

format_size(size, human_readable) ==
    IF ~human_readable THEN u64_to_string(size)
    ELSE LET v == scale_loop([digits |-> as_f64(size), point |-> 0])
             unit_index == v.point
         IN  IF unit_index = 0
             THEN fmt_fixed0(v) \o <<UNITS[unit_index + 1]>>
             ELSE fmt_fixed1(v) \o <<UNITS[unit_index + 1]>>

----------------------------------------------------------------------------
(* The file system the program reads.  An object is what the calls of the   *)
(* program return for it: raw is its final path component, stat whether its *)
(* metadata can be read, readable whether read_dir on it succeeds.          *)

RegularFile ==
    [raw |-> <<>>, iter_ok |-> TRUE, stat |-> TRUE, is_dir |-> FALSE, is_symlink |-> FALSE,
     mode |-> 33188, nlink |-> 1, size |-> <<>>, mtime |-> 1,
     readable |-> FALSE, nchildren |-> 0]

File(raw, mode, size, mtime) ==
    [RegularFile EXCEPT !.raw = raw, !.mode = mode, !.size = size, !.mtime = mtime]

Directory(raw, mode, mtime, readable, nchildren) ==
    [RegularFile EXCEPT !.raw = raw, !.is_dir = TRUE, !.mode = mode, !.nlink = 2 + nchildren,
                        !.size = <<0, 4>>, !.mtime = mtime,
                        !.readable = readable, !.nchildren = nchildren]

\* the children of the working directory, in the order read_dir yields them
ProjectChildren ==
    << File(<<"b", ".", "t", "x", "t">>, 33188, <<512, 1>>, 5),
       File(<<".", "h", "i", "d", "d", "e", "n">>, 33188, <<0, 0, 0, 0, 3>>, 3),
       Directory(<<"A">>, 16877, 5, TRUE, 3),
       File(<<"x", ".", "z", "i", "p">>, 33261, <<1023, 1023>>, 2),
       Directory(<<".", "g", "i", "t">>, 16832, 5, FALSE, 0),
       File(<<"a", ".", "P", "N", "G">>, 33188, <<0, 1>>, 5),
       [File(<<"l", "n", "k">>, 41471, <<7>>, 1) EXCEPT !.is_symlink = TRUE],
       Directory(<<"Z", "e", "d">>, 16877, 2, TRUE, 0) >>

\* a directory where the metadata of one child cannot be read
RacyChildren ==
    << File(<<"o", "k", "1">>, 33188, <<1>>, 1),
       [File(<<"g", "o", "n", "e">>, 33188, <<1>>, 2) EXCEPT !.stat = FALSE],
       File(<<".", "l", "a", "t", "e">>, 33188, <<1>>, 3),
       [File(<<"e", "i", "o">>, 33188, <<1>>, 3) EXCEPT !.iter_ok = FALSE] >>

\* a directory where the name of one child is not valid UTF-8
WeirdChildren ==
    << File(<<"n", "1">>, 33188, <<1>>, 1),
       File(<<"b", BadByte>>, 33188, <<1>>, 2),
       File(<<".", "n", "2">>, 33188, <<1>>, 3) >>

\* the paths a command line may name
PathArgs == {".", "empty", "locked", "racy", "weird", ".profile", "missing", "odd.zip"}

\* the object a path names: exists, the object itself, and its children
Lookup(path) ==
    CASE path = "." ->
            [exists |-> TRUE, children |-> ProjectChildren,
             self |-> Directory(<<".">>, 16877, 5, TRUE, 8)]
      [] path = "empty" ->
            [exists |-> TRUE, children |-> <<>>,
             self |-> Directory(<<"e", "m", "p", "t", "y">>, 16877, 1, TRUE, 0)]
      [] path = "locked" ->
            [exists |-> TRUE, children |-> <<>>,
             self |-> Directory(<<"l", "o", "c", "k", "e", "d">>, 16384, 1, FALSE, 0)]
      [] path = "racy" ->
            [exists |-> TRUE, children |-> RacyChildren,
             self |-> Directory(<<"r", "a", "c", "y">>, 16877, 1, TRUE, 4)]
      [] path = "weird" ->
            [exists |-> TRUE, children |-> WeirdChildren,
             self |-> Directory(<<"w", "e", "i", "r", "d">>, 16877, 1, TRUE, 3)]
      [] path = ".profile" ->
            [exists |-> TRUE, children |-> <<>>,
             self |-> File(<<".", "p", "r", "o", "f", "i", "l", "e">>, 33188, <<807>>, 2)]
      [] path = "missing" ->
            [exists |-> FALSE, children |-> <<>>,
             self |-> [File(<<"m", "i", "s", "s", "i", "n", "g">>, 0, <<>>, 0)
                          EXCEPT !.stat = FALSE]]
      [] path = "odd.zip" ->
            [exists |-> TRUE, children |-> <<>>,
             self |-> File(<<BadByte, ".", "z", "i", "p">>, 33261, <<5>>, 2)]

----------------------------------------------------------------------------
(* Metadata Extractor and Directory Counter *)

Ok(v) == [ok |-> TRUE, val |-> v]

Err(e) == [ok |-> FALSE, err |-> e]

\* fs::Metadata of an object
Metadata(obj) == [mode |-> obj.mode, nlink |-> obj.nlink, size |-> obj.size, mtime |-> obj.mtime]

\* mutant of count_directory_entries: a failed read counts as an empty directory
count_directory_entries_zero(obj) == IF obj.readable THEN Some(obj.nchildren) ELSE Some(0)

count_directory_entries(obj) == IF obj.readable THEN Some(obj.nchildren) ELSE None

\* FileInfo::new on a DirEntry
FileInfo_new(entry, count_dirs) ==
    IF ~entry.stat THEN Err("IoError")
    ELSE IF ~to_str(entry.raw).some THEN Err("InvalidFileName")
    ELSE Ok([name |-> to_str(entry.raw).val,
             path |-> entry.raw,
             metadata |-> Metadata(entry),
             is_dir |-> entry.is_dir,
             is_symlink |-> entry.is_symlink,
             dir_count |-> IF entry.is_dir /\ count_dirs
                           THEN count_directory_entries(entry) ELSE None])

\* FileInfo::from_path on a path argument
FileInfo_from_path(obj, count_dirs) ==
    IF ~obj.stat THEN Err("IoError")
    ELSE Ok([name |-> IF to_str(obj.raw).some THEN to_str(obj.raw).val ELSE <<>>,
             path |-> obj.raw,
             metadata |-> Metadata(obj),
             is_dir |-> obj.is_dir,
             is_symlink |-> obj.is_symlink,
             dir_count |-> IF obj.is_dir /\ count_dirs
                           THEN count_directory_entries(obj) ELSE None])

----------------------------------------------------------------------------
(* Renderer *)

ColorModes == {"Never", "Always", "Auto"}

\* should_use_color: Auto colors when TERM is set and NO_COLOR is not
should_use_color(color_mode, e) ==
    CASE color_mode = "Never" -> FALSE
      [] color_mode = "Always" -> TRUE
      [] color_mode = "Auto" -> e.TERM /\ ~e.NO_COLOR

\* mutant of colorize_filename: a colored directory name carries its own "/"
colorize_filename_slash(file, use_color) ==
    IF ~use_color THEN file.name
    ELSE IF get_file_color(file).some
         THEN color(file.name \o (IF file.is_dir THEN <<"/">> ELSE <<>>), get_file_color(file).val)
    ELSE file.name

colorize_filename(file, use_color) ==
    IF ~use_color THEN file.name
    ELSE IF get_file_color(file).some THEN color(file.name, get_file_color(file).val)
    ELSE file.name

\* mutant of format_filename_with_indicators: the count is shown for unreadable
\* directories too, as 0
format_filename_with_indicators_no_unknown(file, use_color, show_counts) ==
    LET colored_name == colorize_filename(file, use_color)
    IN  IF file.is_dir /\ show_counts
        THEN colored_name \o <<"(">>
               \o to_string(IF file.dir_count.some THEN file.dir_count.val ELSE 0) \o <<")">>
        ELSE IF file.is_dir THEN colored_name \o <<"/">>
        ELSE colored_name

\* format_filename_with_indicators of project/color-ls/src/main.rs
format_filename_with_indicators(file, use_color, show_counts) ==
    LET colored_name == colorize_filename(file, use_color)
    IN  IF file.is_dir /\ show_counts
        THEN IF file.dir_count.some
             THEN colored_name \o <<"(">> \o to_string(file.dir_count.val) \o <<")">>
             ELSE colored_name \o <<"[", "?", "]">>
        ELSE IF file.is_dir THEN colored_name \o <<"/">>
        ELSE colored_name

\* format_filename_with_indicators of newInterface.rs: the suffix is colored too
format_filename_with_indicators_new(file, use_color, show_counts) ==
    LET colored_name == colorize_filename(file, use_color)
        c == get_file_color(file)
    IN  IF file.is_dir /\ show_counts
        THEN IF file.dir_count.some
             THEN IF use_color /\ c.some
                  THEN colored_name \o color(<<"(">>, c.val)
                         \o color(to_string(file.dir_count.val), "BrightBlack")
                         \o color(<<")">>, c.val)
                  ELSE colored_name \o <<"(">> \o to_string(file.dir_count.val) \o <<")">>
             ELSE IF use_color /\ c.some
                  THEN colored_name \o color(<<"[">>, c.val)
                         \o color(<<"?">>, "BrightBlack") \o color(<<"]">>, c.val)
                  ELSE colored_name \o <<"[", "?", "]">>
        ELSE IF file.is_dir
        THEN IF use_color /\ c.some
             THEN colored_name \o color(<<"/">>, c.val)
             ELSE colored_name \o <<"/">>
        ELSE colored_name

\* libc file type bits
S_IFMT == 61440

S_IFDIR == 16384

S_IFLNK == 40960

S_IFBLK == 24576

S_IFCHR == 8192

S_IFIFO == 4096

S_IFSOCK == 49152

\* mode & S_IFMT
FileTypeBits(mode) == (mode % (S_IFMT + S_IFIFO)) - (mode % S_IFIFO)

format_permission_triplet(mode, read, write, execute) ==
    << IF HasBit(mode, read) THEN "r" ELSE "-",
       IF HasBit(mode, write) THEN "w" ELSE "-",
       IF HasBit(mode, execute) THEN "x" ELSE "-" >>

format_permissions(mode) ==
    LET t == FileTypeBits(mode)
        file_type == CASE t = S_IFDIR -> "d"
                       [] t = S_IFLNK -> "l"
                       [] t = S_IFBLK -> "b"
                       [] t = S_IFCHR -> "c"
                       [] t = S_IFIFO -> "p"
                       [] t = S_IFSOCK -> "s"
                       [] OTHER -> "-"
    IN  <<file_type>>
          \o format_permission_triplet(mode, 256, 128, S_IXUSR)
          \o format_permission_triplet(mode, 32, 16, S_IXGRP)
          \o format_permission_triplet(mode, 4, 2, S_IXOTH)

\* modified.format("%b %d %H:%M"), for a time counted in minutes from Jan 01 00:00
time_format(mtime) ==
    <<"J", "a", "n", " ", "0", "1", " ">>
      \o <<Digit((mtime \div 600) % 10), Digit((mtime \div 60) % 10), ":">>
      \o <<Digit((mtime % 60) \div 10), Digit(mtime % 10)>>

\* print_long_format: the line it prints
print_long_format(file, human_readable, use_color, show_counts) ==
    format_permissions(file.metadata.mode) \o <<" ">>
      \o pad_left(to_string(file.metadata.nlink), 3) \o <<" ">>
      \o pad_left(format_size(file.metadata.size, human_readable), 8) \o <<" ">>
      \o time_format(file.metadata.mtime) \o <<" ">>
      \o format_filename_with_indicators(file, use_color, show_counts) \o <<"\n">>

\* print_short_format: the text it prints
print_short_format(file, use_color, show_counts) ==
    format_filename_with_indicators(file, use_color, show_counts) \o <<" ", " ">>

----------------------------------------------------------------------------
(* Sorter / Filter and list_directory *)

\* mutant of should_show_file: the negation of the test is lost
should_show_file_negation_lost(name, show_all) == show_all \/ starts_with(name, ".")

should_show_file(name, show_all) == show_all \/ ~starts_with(name, ".")

\* the loop over read_dir: the entries pushed, or the first error
RECURSIVE read_entries(_, _, _)
read_entries(children, show_all, show_counts) ==
    IF children = <<>> THEN Ok(<<>>)
    ELSE IF ~Head(children).iter_ok THEN Err("IoError")
    ELSE LET file_info == FileInfo_new(Head(children), show_counts)
         IN  IF ~file_info.ok THEN file_info
             ELSE LET rest == read_entries(Tail(children), show_all, show_counts)
                  IN  IF ~rest.ok THEN rest
                      ELSE IF should_show_file(file_info.val.name, show_all)
                           THEN Ok(<<file_info.val>> \o rest.val)
                           ELSE rest

\* the entries of a path: the children of a directory, or the path itself
collect_entries(path, show_all, show_counts) ==
    LET node == Lookup(path)
    IN  IF node.exists /\ node.self.is_dir
        THEN IF ~node.self.readable THEN Err("IoError")
             ELSE read_entries(node.children, show_all, show_counts)
        ELSE LET file_info == FileInfo_from_path(node.self, show_counts)
             IN  IF ~file_info.ok THEN file_info ELSE Ok(<<file_info.val>>)

\* the two groups
directories_of(entries) == SelectSeq(entries, LAMBDA e : e.is_dir)

\* mutant of files_of: a symlink is put in neither group
files_of_no_symlinks(entries) == SelectSeq(entries, LAMBDA e : ~e.is_dir /\ ~e.is_symlink)

files_of(entries) == SelectSeq(entries, LAMBDA e : ~e.is_dir)

\* the order of the sort: by modification time or by name
Less(a, b, sort_time) ==
    IF sort_time THEN a.metadata.mtime < b.metadata.mtime ELSE cmp(a.name, b.name) = -1

\* mutant of insert_sorted: x is put in front of the entries equal to it
RECURSIVE insert_sorted_before_equal(_, _, _)
insert_sorted_before_equal(sorted, x, sort_time) ==
    IF sorted = <<>> THEN <<x>>
    ELSE IF ~Less(Head(sorted), x, sort_time) THEN <<x>> \o sorted
    ELSE <<Head(sorted)>> \o insert_sorted_before_equal(Tail(sorted), x, sort_time)

\* x put behind every entry that is not greater than it
RECURSIVE insert_sorted(_, _, _)
insert_sorted(sorted, x, sort_time) ==
    IF sorted = <<>> THEN <<x>>
    ELSE IF Less(x, Head(sorted), sort_time) THEN <<x>> \o sorted
    ELSE <<Head(sorted)>> \o insert_sorted(Tail(sorted), x, sort_time)

\* slice::sort_by / sort_by_key: a stable sort
RECURSIVE stable_sort(_, _)
stable_sort(entries, sort_time) ==
    IF entries = <<>> THEN <<>>
    ELSE insert_sorted(stable_sort(SubSeq(entries, 1, Len(entries) - 1), sort_time),
                       entries[Len(entries)], sort_time)

reverse(entries) == [k \in 1..Len(entries) |-> entries[Len(entries) + 1 - k]]

sort_func(entries, sort_time, rev) ==
    IF rev THEN reverse(stable_sort(entries, sort_time)) ELSE stable_sort(entries, sort_time)

\* one print call: the text it writes and, when it prints an entry, that entry
Printed(entry, text) == [entry |-> entry, text |-> text]

RECURSIVE TextOf(_)
TextOf(prints) == IF prints = <<>> THEN <<>> ELSE Head(prints).text \o TextOf(Tail(prints))

RECURSIVE EntriesOf(_)
EntriesOf(prints) == IF prints = <<>> THEN <<>> ELSE Head(prints).entry \o EntriesOf(Tail(prints))

\* a for loop over a group in long format
long_lines(group, human_readable, use_color, show_counts) ==
    [k \in 1..Len(group) |->
        Printed(<<group[k]>>, print_long_format(group[k], human_readable, use_color, show_counts))]

\* a for loop over a group in short format
short_row(group, use_color, show_counts) ==
    [k \in 1..Len(group) |->
        Printed(<<group[k]>>, print_short_format(group[k], use_color, show_counts))]

\* println!()
println == <<Printed(<<>>, <<"\n">>)>>

\* mutant of print_entries: the files are printed before the directories
print_entries_files_first(directories, files, o, use_color, show_counts) ==
    IF o.long
    THEN long_lines(files, o.human_readable, use_color, show_counts)
           \o (IF directories # <<>> /\ files # <<>> THEN println ELSE <<>>)
           \o long_lines(directories, o.human_readable, use_color, show_counts)
    ELSE println
           \o (IF files # <<>>
               THEN short_row(files, use_color, show_counts) \o println
               ELSE <<>>)
           \o (IF directories # <<>>
               THEN short_row(directories, use_color, show_counts) \o println
               ELSE <<>>)
           \o println

\* the printing part of list_directory, as the sequence of its print calls
print_entries(directories, files, o, use_color, show_counts) ==
    IF o.long
    THEN long_lines(directories, o.human_readable, use_color, show_counts)
           \o (IF directories # <<>> /\ files # <<>> THEN println ELSE <<>>)
           \o long_lines(files, o.human_readable, use_color, show_counts)
    ELSE println
           \o (IF directories # <<>>
               THEN short_row(directories, use_color, show_counts) \o println
               ELSE <<>>)
           \o (IF files # <<>>
               THEN short_row(files, use_color, show_counts) \o println
               ELSE <<>>)
           \o println

\* list_directory: its result, the text it prints, the entries it pushed (entries)
\* and the entries in the order it printed them (rendered)
list_directory(path, o, e) ==
    LET use_color == should_use_color(o.color, e)
        show_counts == ~o.no_dir_counts
        entries == collect_entries(path, o.all, show_counts)
    IN  IF ~entries.ok
        THEN [result |-> entries.err, text |-> <<>>, entries |-> <<>>, rendered |-> <<>>]
        ELSE LET directories == sort_func(directories_of(entries.val), o.sort_time, o.reverse)
                 files == sort_func(files_of(entries.val), o.sort_time, o.reverse)
                 prints == print_entries(directories, files, o, use_color, show_counts)
             IN  [result |-> "Ok", text |-> TextOf(prints), entries |-> entries.val,
                  rendered |-> EntriesOf(prints)]

----------------------------------------------------------------------------
(* run and main *)

\* lists of up to MaxPaths paths, no path twice
PathLists ==
    {ps \in UNION {[1..n -> PathArgs] : n \in 0..MaxPaths} :
        \A a, b \in 1..Len(ps) : ps[a] = ps[b] => a = b}

\* the command lines: every flag combination with every list of paths
Opts ==
    [all : BOOLEAN, long : BOOLEAN, human_readable : BOOLEAN, reverse : BOOLEAN,
     sort_time : BOOLEAN, color : ColorModes, no_dir_counts : BOOLEAN,
     paths : PathLists]

\* environments: a terminal, a terminal with NO_COLOR set, and no TERM
Envs ==
    {[TERM |-> TRUE, NO_COLOR |-> FALSE], [TERM |-> TRUE, NO_COLOR |-> TRUE],
     [TERM |-> FALSE, NO_COLOR |-> FALSE]}

\* the paths run goes through: the working directory when none is given
run_paths(o) == IF o.paths = <<>> THEN <<".">> ELSE o.paths

NoCall == [fn |-> "main"]

\* the environment of a plain terminal session
DefaultEnv == [TERM |-> TRUE, NO_COLOR |-> FALSE]

\* Every command line and environment, up to what the program never reads: the
\* environment unless --color=auto, and -h unless -l.
Init ==
    /\ opt \in {o \in Opts : ~o.long => ~o.human_readable}
    /\ env \in {e \in Envs : opt.color # "Auto" => e = DefaultEnv}
    /\ i = 0
    /\ stdout = <<>>
    /\ stderr = <<>>
    /\ exit_code = -1
    /\ listings = <<>>
    /\ call = NoCall
    /\ ret = <<>>
    /\ pc = "run"

\* mutant of header: the blank line between two path sections is left out
header_no_separator(o, k) ==
    IF Len(run_paths(o)) > 1 THEN <<run_paths(o)[k + 1], ":", "\n">> ELSE <<>>

\* the header run prints before the listing of path number k (0-based)
header(o, k) ==
    IF Len(run_paths(o)) > 1
    THEN (IF k > 0 THEN <<"\n">> ELSE <<>>) \o <<run_paths(o)[k + 1], ":", "\n">>
    ELSE <<>>

\* mutant of ListPath: the error of list_directory is returned with ?, so that run
\* ends at the first failing path and main reports it and exits with 1
ListPath_propagates ==
    /\ pc = "run"
    /\ i < Len(run_paths(opt))
    /\ LET path == run_paths(opt)[i + 1]
           r == list_directory(path, opt, env)
       IN  /\ stdout' = stdout \o header(opt, i) \o r.text
           /\ stderr' = IF r.result # "Ok"
                        THEN Append(stderr, [prog |-> "ls", path |-> "", error |-> r.result])
                        ELSE stderr
           /\ listings' = Append(listings, [path |-> path] @@ r)
           /\ pc' = IF r.result # "Ok" THEN "exit" ELSE pc
           /\ exit_code' = IF r.result # "Ok" THEN 1 ELSE exit_code
    /\ i' = i + 1
    /\ UNCHANGED <<opt, env, call, ret>>

\* one turn of the loop of run: the header, list_directory, and its error reported
ListPath ==
    /\ pc = "run"
    /\ i < Len(run_paths(opt))
    /\ LET path == run_paths(opt)[i + 1]
           r == list_directory(path, opt, env)
       IN  /\ stdout' = stdout \o header(opt, i) \o r.text
           /\ stderr' = IF r.result # "Ok"
                        THEN Append(stderr, [prog |-> "ls", path |-> path, error |-> r.result])
                        ELSE stderr
           /\ listings' = Append(listings, [path |-> path] @@ r)
    /\ i' = i + 1
    /\ UNCHANGED <<opt, env, exit_code, call, ret, pc>>

\* run returns Ok(()) after the last path and main ends
Exit ==
    /\ pc = "run"
    /\ i = Len(run_paths(opt))
    /\ pc' = "exit"
    /\ exit_code' = 0
    /\ UNCHANGED <<opt, env, i, stdout, stderr, listings, call, ret>>

Next == ListPath \/ Exit

Spec == Init /\ [][Next]_vars

----------------------------------------------------------------------------
(* get_file_color on its own: the two variants applied to classified entries *)

\* file names with the group their extension belongs to
ColorSamples ==
    { [raw |-> <<"x", ".", "z", "i", "p">>, class |-> "archive"],
      [raw |-> <<"t", ".", "t", "a", "r", ".", "G", "Z">>, class |-> "archive"],
      [raw |-> <<"a", ".", "p", "n", "g">>, class |-> "image"],
      [raw |-> <<"a", ".", "P", "N", "G">>, class |-> "image"],
      [raw |-> <<"s", ".", "M", "p", "3">>, class |-> "audio"],
      [raw |-> <<"n", "o", "t", "e", "s", ".", "m", "d">>, class |-> "unlisted"],
      [raw |-> <<"z", "i", "p", ".", "b", "a", "k">>, class |-> "unlisted"],
      [raw |-> <<"e", "n", "d", ".">>, class |-> "unlisted"],
      [raw |-> <<"R", "E", "A", "D", "M", "E">>, class |-> "none"],
      [raw |-> <<".", "z", "i", "p">>, class |-> "none"] }

\* the permission bits of a regular file with each combination of executable bits
ModeSamples == {33188 + x * S_IXUSR + g * S_IXGRP + o * S_IXOTH : x, g, o \in {0, 1}}

ColorCalls ==
    { [fn |-> fn, class |-> smp.class,
       file |-> [FileInfo_new(File(smp.raw, mode, <<>>, 1), FALSE).val
                    EXCEPT !.is_dir = d, !.is_symlink = l]] :
        fn \in {"get_file_color", "get_file_color_v1"}, smp \in ColorSamples,
        mode \in ModeSamples, d \in BOOLEAN, l \in BOOLEAN }

InitColor ==
    /\ call \in ColorCalls
    /\ ret = None
    /\ pc = "args"
    /\ opt = <<>> /\ env = <<>> /\ i = 0 /\ stdout = <<>> /\ stderr = <<>>
    /\ exit_code = -1 /\ listings = <<>>

CallGetFileColor ==
    /\ pc = "args"
    /\ call.fn = "get_file_color"
    /\ ret' = get_file_color(call.file)
    /\ pc' = "ret"
    /\ UNCHANGED <<opt, env, i, stdout, stderr, exit_code, listings, call>>

CallGetFileColorV1 ==
    /\ pc = "args"
    /\ call.fn = "get_file_color_v1"
    /\ ret' = get_file_color_v1(call.file)
    /\ pc' = "ret"
    /\ UNCHANGED <<opt, env, i, stdout, stderr, exit_code, listings, call>>

NextColor == CallGetFileColor \/ CallGetFileColorV1

SpecColor == InitColor /\ [][NextColor]_vars

----------------------------------------------------------------------------
(* format_filename_with_indicators on its own, in both versions *)

\* directory entries with the decimal text of their number of children
NameSamples ==
    { [entry |-> File(<<"b", ".", "t", "x", "t">>, 33188, <<512, 1>>, 5), count |-> <<>>],
      [entry |-> File(<<"r", "u", "n">>, 33261, <<1>>, 5), count |-> <<>>],
      [entry |-> File(<<"R", "E", "A", "D", "M", "E">>, 33188, <<1>>, 5), count |-> <<>>],
      [entry |-> [File(<<"l", "n", "k">>, 41471, <<7>>, 1) EXCEPT !.is_symlink = TRUE],
       count |-> <<>>],
      [entry |-> Directory(<<"A">>, 16877, 5, TRUE, 3), count |-> <<"3">>],
      [entry |-> Directory(<<"Z", "e", "d">>, 16877, 5, TRUE, 0), count |-> <<"0">>],
      [entry |-> Directory(<<"s", "r", "c">>, 16877, 5, TRUE, 12), count |-> <<"1", "2">>],
      [entry |-> Directory(<<"b", "i", "g">>, 16877, 5, TRUE, 1050),
       count |-> <<"1", "0", "5", "0">>],
      [entry |-> Directory(<<".", "g", "i", "t">>, 16832, 5, FALSE, 0), count |-> <<>>],
      [entry |-> [Directory(<<"d", "l", "n", "k">>, 41471, 5, TRUE, 2)
                     EXCEPT !.is_symlink = TRUE],
       count |-> <<"2">>] }

NameCalls ==
    { [fn |-> fn, count |-> smp.count, use_color |-> uc, show_counts |-> sc,
       file |-> FileInfo_new(smp.entry, sc).val] :
        fn \in {"format_filename_with_indicators", "format_filename_with_indicators_new"},
        smp \in NameSamples, uc \in BOOLEAN, sc \in BOOLEAN }

InitName ==
    /\ call \in NameCalls
    /\ ret = <<>>
    /\ pc = "args"
    /\ opt = <<>> /\ env = <<>> /\ i = 0 /\ stdout = <<>> /\ stderr = <<>>
    /\ exit_code = -1 /\ listings = <<>>

CallFormatFilename ==
    /\ pc = "args"
    /\ call.fn = "format_filename_with_indicators"
    /\ ret' = format_filename_with_indicators(call.file, call.use_color, call.show_counts)
    /\ pc' = "ret"
    /\ UNCHANGED <<opt, env, i, stdout, stderr, exit_code, listings, call>>

CallFormatFilenameNew ==
    /\ pc = "args"
    /\ call.fn = "format_filename_with_indicators_new"
    /\ ret' = format_filename_with_indicators_new(call.file, call.use_color, call.show_counts)
    /\ pc' = "ret"
    /\ UNCHANGED <<opt, env, i, stdout, stderr, exit_code, listings, call>>

NextName == CallFormatFilename \/ CallFormatFilenameNew

SpecName == InitName /\ [][NextName]_vars

----------------------------------------------------------------------------
(* format_size on its own *)

\* base-1024 digits the byte counts are built from
DigitSamples == {0, 512, 1023}

\* byte counts of every length a u64 has, and the ones that round at a tie
SizeSamples ==
    { n \in UNION {[1..len -> DigitSamples] : len \in 0..(U64Digits - 1)} : IsU64(n) }
      \cup { n \o <<t>> : n \in [1..(U64Digits - 1) -> DigitSamples], t \in {1, U64TopLimit - 1} }
      \cup { <<1>>, <<0, 1>>, <<256, 1>>, <<768, 1>>, <<973, 1023>>, <<972, 1023>>,
             <<1, 0, 0, 0, 0, 8>>, <<3, 0, 0, 0, 0, 8>>, <<52, 999>>, <<51, 999>> }

SizeCalls ==
    { [fn |-> "format_size", size |-> n, human_readable |-> h] :
        n \in SizeSamples, h \in BOOLEAN }

InitSize ==
    /\ call \in SizeCalls
    /\ ret = <<>>
    /\ pc = "args"
    /\ opt = <<>> /\ env = <<>> /\ i = 0 /\ stdout = <<>> /\ stderr = <<>>
    /\ exit_code = -1 /\ listings = <<>>

CallFormatSize ==
    /\ pc = "args"
    /\ call.fn = "format_size"
    /\ ret' = format_size(call.size, call.human_readable)
    /\ pc' = "ret"
    /\ UNCHANGED <<opt, env, i, stdout, stderr, exit_code, listings, call>>

NextSize == CallFormatSize

SpecSize == InitSize /\ [][NextSize]_vars

----------------------------------------------------------------------------
(* Properties of run and list_directory, under Spec *)

\* a path argument that names a directory
IsDirArg(path) == Lookup(path).exists /\ Lookup(path).self.is_dir

\* the objects list_directory looks at for a path
ObjectsOf(path) == IF IsDirArg(path) THEN Lookup(path).children ELSE <<Lookup(path).self>>

\* the names among them that start with "."
DotNames(path) ==
    {ObjectsOf(path)[k].raw : k \in {j \in 1..Len(ObjectsOf(path)) :
                                        starts_with(ObjectsOf(path)[j].raw, ".")}}

RenderedNames(l) == {l.rendered[k].name : k \in 1..Len(l.rendered)}

C2_ErrorsReportedAndSkipped ==
    /\ i <= Len(run_paths(opt))
    /\ Len(listings) = i
    /\ \A k \in 1..Len(listings) : listings[k].path = run_paths(opt)[k]
    /\ LET failed == SelectSeq(listings, LAMBDA l : l.result # "Ok")
       IN  stderr = [k \in 1..Len(failed) |->
                        [prog |-> "ls", path |-> failed[k].path, error |-> failed[k].result]]
    /\ exit_code \in {-1, 0}
    /\ pc = "exit" <=> exit_code = 0
    /\ pc = "exit" => i = Len(run_paths(opt))

\* C2 witness: the process has ended after a path that failed and a later one that
\* was listed
C2_Witness ==
    /\ pc = "exit"
    /\ Len(listings) = 2
    /\ listings[1].result # "Ok"
    /\ listings[2].result = "Ok" /\ listings[2].rendered # <<>>
    /\ Len(stderr) = 1

\* the children of a directory argument that can be built and pass the filter
BuildableNames(path, show_all) ==
    {ObjectsOf(path)[k].raw : k \in {j \in 1..Len(ObjectsOf(path)) :
        /\ ObjectsOf(path)[j].iter_ok
        /\ ObjectsOf(path)[j].stat
        /\ to_str(ObjectsOf(path)[j].raw).some
        /\ show_all \/ ~starts_with(ObjectsOf(path)[j].raw, ".")}}

\* C3 as stated: in a directory that can be read, the failure of one child removes
\* only that child (every other child is listed), and the outcome is not the one of
\* a directory that cannot be read (an IoError reported for the path).
C3_ChildFailureRemovesOnlyThatChild ==
    \A k \in 1..Len(listings) :
        LET l == listings[k]
        IN  IsDirArg(l.path) /\ Lookup(l.path).self.readable =>
              /\ BuildableNames(l.path, opt.all) \subseteq RenderedNames(l)
              /\ l.result # "IoError"

\* the object of an entry of a listing
ObjectOf(path, entry) ==
    ObjectsOf(path)[CHOOSE k \in 1..Len(ObjectsOf(path)) : ObjectsOf(path)[k].raw = entry.path]

\* C4 as stated: dir_count is set if and only if the entry is a directory and
\* counting is enabled.
C4_CountSetIffDirectoryAndCounting ==
    \A k \in 1..Len(listings) : \A j \in 1..Len(listings[k].entries) :
        LET e == listings[k].entries[j]
        IN  e.dir_count.some <=> (e.is_dir /\ ~opt.no_dir_counts)

\* C4 amended: dir_count is set if and only if the entry is a directory, counting
\* is enabled and the read of that directory succeeded, and then it is the number
\* of its children; it is never set for an entry that is no directory.
C4_CountSetIffDirectoryCountedAndRead ==
    \A k \in 1..Len(listings) : \A j \in 1..Len(listings[k].entries) :
        LET e == listings[k].entries[j]
            obj == ObjectOf(listings[k].path, e)
        IN  /\ e.dir_count.some <=> (e.is_dir /\ ~opt.no_dir_counts /\ obj.readable)
            /\ e.dir_count.some => e.dir_count.val = obj.nchildren
            /\ ~e.is_dir => ~e.dir_count.some

\* C4 witness: with counting enabled, a listing holds a directory with a count and
\* one whose count is unknown
C4_Witness ==
    /\ ~opt.no_dir_counts
    /\ \E k \in 1..Len(listings) :
          /\ \E j \in 1..Len(listings[k].entries) :
                listings[k].entries[j].is_dir /\ listings[k].entries[j].dir_count.some
          /\ \E j \in 1..Len(listings[k].entries) :
                listings[k].entries[j].is_dir /\ ~listings[k].entries[j].dir_count.some
          /\ \E j \in 1..Len(listings[k].entries) : ~listings[k].entries[j].is_dir

\* C5: in short and in long form every directory entry is rendered before every
\* file entry, and the two groups together are the entries that passed the filter.
C5_DirectoriesBeforeFiles ==
    \A k \in 1..Len(listings) :
        LET r == listings[k].rendered
        IN  /\ \A a, b \in 1..Len(r) : r[a].is_dir /\ ~r[b].is_dir => a < b
            /\ Len(r) = Len(listings[k].entries)
            /\ {r[a] : a \in 1..Len(r)} = Range(listings[k].entries)

\* C5 witness: a listing with directories and files, sorted by time and reversed
C5_Witness ==
    /\ opt.reverse /\ opt.sort_time
    /\ \E k \in 1..Len(listings) :
          /\ \E a \in 1..Len(listings[k].rendered) : listings[k].rendered[a].is_dir
          /\ \E a \in 1..Len(listings[k].rendered) : ~listings[k].rendered[a].is_dir

\* what list_directory prints for the same path and flags with --color=never
PlainText(path) == list_directory(path, [opt EXCEPT !.color = "Never"], env).text

\* C7: the text printed with coloring disabled is the text printed with coloring
\* enabled with every escape sequence removed.
C7_PlainIsColoredStripped ==
    \A k \in 1..Len(listings) : StripEscapes(listings[k].text) = PlainText(listings[k].path)

\* C7 witness: a listing printed with colors, directories and files in it
C7_Witness ==
    /\ should_use_color(opt.color, env)
    /\ \E k \in 1..Len(listings) :
          /\ listings[k].text # StripEscapes(listings[k].text)
          /\ \E a \in 1..Len(listings[k].rendered) : listings[k].rendered[a].is_dir
          /\ \E a \in 1..Len(listings[k].rendered) : ~listings[k].rendered[a].is_dir

----------------------------------------------------------------------------
(* Properties of format_filename_with_indicators, under SpecName *)

\* the suffix the name of an entry is to carry, from the text of its count
SuffixOf(c) ==
    IF c.file.is_dir /\ c.show_counts
    THEN (IF c.count # <<>> THEN <<"(">> \o c.count \o <<")">> ELSE <<"[", "?", "]">>)
    ELSE IF c.file.is_dir THEN <<"/">>
    ELSE <<>>

\* C6: the decorated name is the name followed by "(N)" or "[?]" for a directory
\* when counts are shown, by "/" for a directory when they are not, and by nothing
\* for any other entry; in main.rs the suffix follows the colored name as plain
\* text, in newInterface.rs it is colored as well.
C6_NameDecoration ==
    pc = "ret" /\ call.fn \in {"format_filename_with_indicators",
                               "format_filename_with_indicators_new"} =>
        /\ StripEscapes(ret) = call.file.name \o SuffixOf(call)
        /\ ~call.use_color => ret = call.file.name \o SuffixOf(call)
        /\ call.fn = "format_filename_with_indicators" =>
              ret = colorize_filename(call.file, call.use_color) \o SuffixOf(call)

\* C6 witness: a directory whose count is unknown, decorated with counts shown
C6_Witness ==
    /\ pc = "ret"
    /\ call.fn = "format_filename_with_indicators"
    /\ call.file.is_dir /\ call.show_counts /\ ~call.file.dir_count.some
    /\ ret = call.file.name \o <<"[", "?", "]">>

----------------------------------------------------------------------------
(* Properties of get_file_color, under SpecColor *)

\* the colors of the first three rules in each variant
Palette(fn) ==
    IF fn = "get_file_color"
    THEN [dir |-> "BrightCyan", symlink |-> "Red", exec |-> "BrightGreen"]
    ELSE [dir |-> "Blue", symlink |-> "Cyan", exec |-> "Green"]

\* neither a directory nor a symlink nor executable
PlainFile(c) == ~c.file.is_dir /\ ~c.file.is_symlink /\ c.file.metadata.mode = 33188

\* C8: the first rule that matches decides: directory, then symlink, then any
\* executable bit, then the extension group, compared without regard to case.
C8_FirstMatchWins ==
    pc = "ret" /\ call.fn \in {"get_file_color", "get_file_color_v1"} =>
        /\ call.file.is_dir => ret = Some(Palette(call.fn).dir)
        /\ ~call.file.is_dir /\ call.file.is_symlink => ret = Some(Palette(call.fn).symlink)
        /\ ~call.file.is_dir /\ ~call.file.is_symlink /\ call.file.metadata.mode # 33188 =>
              ret = Some(Palette(call.fn).exec)
        /\ PlainFile(call) /\ call.class = "archive" => ret = Some("Red")
        /\ PlainFile(call) /\ call.class = "image" => ret = Some("Magenta")
        /\ PlainFile(call) /\ call.class = "audio" => ret = Some("Cyan")

\* C8 witness: an executable x.zip got the executable color
C8_Witness ==
    /\ pc = "ret"
    /\ call.fn = "get_file_color"
    /\ call.file.name = <<"x", ".", "z", "i", "p">>
    /\ ~call.file.is_dir /\ ~call.file.is_symlink /\ call.file.metadata.mode = 33261
    /\ ret = Some("BrightGreen")

\* the variant a call names, applied to an entry
ColorOf(fn, file) ==
    IF fn = "get_file_color" THEN get_file_color(file) ELSE get_file_color_v1(file)

\* the same entry under a name without an extension
WithoutExtension(file) ==
    [file EXCEPT !.name = <<"R", "E", "A", "D", "M", "E">>,
                 !.path = <<"R", "E", "A", "D", "M", "E">>]

----------------------------------------------------------------------------
(* Properties of format_size, under SpecSize *)

\* the value of decimal text, for a value below 2^31
RECURSIVE IntOfDigits(_)
IntOfDigits(ds) ==
    IF ds = <<>> THEN 0
    ELSE 10 * IntOfDigits(SubSeq(ds, 1, Len(ds) - 1))
           + ((CHOOSE k \in 1..10 : Digits[k] = ds[Len(ds)]) - 1)

\* the byte count that decimal text denotes
RECURSIVE FromDecimal(_)
FromDecimal(ds) ==
    IF ds = <<>> THEN <<>>
    ELSE Norm(TimesTen(FromDecimal(SubSeq(ds, 1, Len(ds) - 1)),
                       (CHOOSE k \in 1..10 : Digits[k] = ds[Len(ds)]) - 1))

IsDecimal(ds) ==
    /\ ds # <<>>
    /\ \A k \in 1..Len(ds) : ds[k] \in Range(Digits)
    /\ Len(ds) > 1 => ds[1] # "0"

\* the parts of a human-readable size: the unit, the text before it, the digits
\* before the point and the digits after it
UnitOf(text) == text[Len(text)]

NumberOf(text) == SubSeq(text, 1, Len(text) - 1)

PointOf(text) == IF \E k \in 1..Len(text) : text[k] = "." THEN LastDot(text) ELSE Len(text)

WholeOf(text) == SubSeq(text, 1, PointOf(text) - 1)

DecimalsOf(text) == SubSeq(text, PointOf(text) + 1, Len(text) - 1)

\* the index of the first unit at which a count scaled by 1024 is below 1024, the
\* last unit when there is none
FirstUnit(n) == IF Len(n) <= 1 THEN 1 ELSE IF Len(n) >= Len(UNITS) THEN Len(UNITS) ELSE Len(n)

\* what C10 says of every result but the size of the printed number
C10_Common ==
    /\ call.human_readable =>
          /\ UnitOf(ret) = UNITS[FirstUnit(call.size)]
          /\ IsDecimal(WholeOf(ret))
          /\ UnitOf(ret) = "B" => DecimalsOf(ret) = <<>> /\ WholeOf(ret) = NumberOf(ret)
          /\ UnitOf(ret) # "B" => Len(DecimalsOf(ret)) = 1 /\ DecimalsOf(ret)[1] \in Range(Digits)
          /\ call.size = <<>> => ret = <<"0", "B">>
          /\ call.size = <<1023>> => ret = <<"1", "0", "2", "3", "B">>
          /\ call.size = <<0, 1>> => ret = <<"1", ".", "0", "K">>
          /\ call.size = <<512, 1>> => ret = <<"1", ".", "5", "K">>
    /\ ~call.human_readable => IsDecimal(ret) /\ FromDecimal(ret) = call.size

\* C10 as stated: the unit is the first one at which the scaled value is below
\* 1024, or P; no decimals for B and one otherwise; the four examples; the number
\* printed before a unit other than P is below 1024; without -h the plain decimal.
C10_PrintedNumberBelowKilo ==
    pc = "ret" /\ call.fn = "format_size" =>
        /\ C10_Common
        /\ call.human_readable /\ UnitOf(ret) # "P" => IntOfDigits(WholeOf(ret)) < Kilo

\* C10 amended: as stated, but before a unit other than P it is the scaled value
\* that is below 1024: the number printed is that value rounded to the decimals
\* shown, so it is below 1024 or is 1024.0 (format_size(1048575, true) = "1024.0K").
C10_ScaledValueBelowKilo ==
    pc = "ret" /\ call.fn = "format_size" =>
        /\ C10_Common
        /\ call.human_readable /\ UnitOf(ret) # "P" =>
              \/ IntOfDigits(WholeOf(ret)) < Kilo
              \/ NumberOf(ret) = <<"1", "0", "2", "4", ".", "0">>

\* C10 witness: 1048575 bytes printed as 1024.0K
C10_Witness ==
    /\ pc = "ret"
    /\ call.fn = "format_size"
    /\ call.human_readable
    /\ call.size = <<1023, 1023>>
    /\ ret = <<"1", "0", "2", "4", ".", "0", "K">>

----------------------------------------------------------------------------
(* Properties of the output of run across its paths, under Spec *)

\* the standard output of the first k paths when every path has a header
RECURSIVE SectionsUpTo(_)
SectionsUpTo(k) ==
    IF k = 0 THEN <<>>
    ELSE SectionsUpTo(k - 1)
           \o (IF k > 1 THEN <<"\n">> ELSE <<>>)
           \o <<listings[k].path, ":", "\n">>
           \o listings[k].text

\* C11: with more than one path, the output of each path starts with the line
\* "<path>:", also when its listing fails; an empty line stands between the end of
\* a section and the next header; nothing stands before the first header; with
\* one path or none the output is the listing alone, without a header.
C11_HeaderPerPath ==
    LET n == Len(run_paths(opt))
    IN  /\ n > 1 => stdout = SectionsUpTo(Len(listings))
        /\ n > 1 /\ listings # <<>> =>
              /\ stdout[1] = run_paths(opt)[1]
              /\ stdout[2] = ":"
              /\ stdout[3] = "\n"
        /\ n > 1 =>
              \A k \in 2..Len(listings) :
                  LET p == Len(SectionsUpTo(k - 1))
                  IN  /\ stdout[p] = "\n"
                      /\ stdout[p + 1] = "\n"
                      /\ stdout[p + 2] = run_paths(opt)[k]
                      /\ stdout[p + 3] = ":"
                      /\ stdout[p + 4] = "\n"
        /\ n <= 1 => stdout = (IF listings = <<>> THEN <<>> ELSE listings[1].text)

\* C11 witness: two paths in long format, the first listing failed and the second
\* printed entries
C11_Witness ==
    /\ Len(opt.paths) = 2
    /\ opt.long
    /\ Len(listings) = 2
    /\ listings[1].result # "Ok"
    /\ listings[2].result = "Ok"
    /\ listings[2].rendered # <<>>

\* the sort keys of two entries are equal under the sort option in force
KeyEq(a, b) ==
    IF opt.sort_time THEN a.metadata.mtime = b.metadata.mtime ELSE a.name = b.name

\* the place of an entry in a sequence of entries
PosIn(entries, e) == CHOOSE k \in 1..Len(entries) : entries[k] = e

\* pairs of places p < q of the rendered entries of a listing that hold two entries
\* of one group with equal sort keys
TiedPairs(l) ==
    {pq \in (1..Len(l.rendered)) \X (1..Len(l.rendered)) :
        /\ pq[1] < pq[2]
        /\ l.rendered[pq[1]].is_dir = l.rendered[pq[2]].is_dir
        /\ KeyEq(l.rendered[pq[1]], l.rendered[pq[2]])}

\* C12 as stated: within a group, entries with equal sort keys are rendered in
\* the order they were enumerated, for every setting of the sort and reverse
\* options.
C12_EqualKeysKeepEnumerationOrder ==
    \A k \in 1..Len(listings) :
        \A pq \in TiedPairs(listings[k]) :
            PosIn(listings[k].entries, listings[k].rendered[pq[1]])
              < PosIn(listings[k].entries, listings[k].rendered[pq[2]])

\* C12 amended: within a group, entries with equal sort keys are rendered in the
\* order they were enumerated when reverse is off, and in the opposite of that
\* order when reverse is on, for either sort option.
C12_EqualKeysOrderFollowsReverse ==
    \A k \in 1..Len(listings) :
        \A pq \in TiedPairs(listings[k]) :
            LET first == PosIn(listings[k].entries, listings[k].rendered[pq[1]])
                second == PosIn(listings[k].entries, listings[k].rendered[pq[2]])
            IN  IF opt.reverse THEN first > second ELSE first < second

\* C12 witness: a listing sorted by time and reversed that renders two entries of
\* one group with the same modification time
C12_Witness ==
    /\ opt.sort_time
    /\ opt.reverse
    /\ \E k \in 1..Len(listings) : TiedPairs(listings[k]) # {}

\* C13 as stated: every entry constructed, from a directory child or from a path
\* argument, has as its name the decoded text of its raw final path segment, and
\* when that raw name cannot be decoded the construction fails with the
\* invalid-name error.
C13_NameIsDecodedRawName ==
    \A k \in 1..Len(listings) :
        LET l == listings[k]
        IN  /\ \A j \in 1..Len(l.entries) :
                  /\ to_str(l.entries[j].path).some
                  /\ l.entries[j].name = to_str(l.entries[j].path).val
            /\ ~IsDirArg(l.path) /\ Lookup(l.path).self.stat
                  /\ ~to_str(Lookup(l.path).self.raw).some =>
                  l.result = "InvalidFileName"

\* the number of places of a sequence that hold e
Count(seq, e) == Cardinality({k \in 1..Len(seq) : seq[k] = e})

\* the entries as they were constructed for a path that passed the hidden filter,
\* in enumeration order
PassedFilter(path) ==
    IF IsDirArg(path)
    THEN LET built == [k \in 1..Len(ObjectsOf(path)) |->
                          FileInfo_new(ObjectsOf(path)[k], ~opt.no_dir_counts).val]
         IN  SelectSeq(built, LAMBDA f : should_show_file(f.name, opt.all))
    ELSE <<FileInfo_from_path(Lookup(path).self, ~opt.no_dir_counts).val>>

\* C14: in a listing that succeeds, the rendered entries are a permutation of the
\* entries that passed the hidden filter: none dropped, duplicated or added, and
\* each one with the name, kind, metadata and child count it was constructed with.
C14_RenderedIsPermutation ==
    \A k \in 1..Len(listings) :
        listings[k].result = "Ok" =>
            LET passed == PassedFilter(listings[k].path)
                rendered == listings[k].rendered
            IN  /\ Len(rendered) = Len(passed)
                /\ \A j \in 1..Len(passed) :
                      Count(rendered, passed[j]) = Count(passed, passed[j])
                /\ \A j \in 1..Len(rendered) :
                      Count(passed, rendered[j]) = Count(rendered, rendered[j])

\* C14 witness: a listing with both groups and a symlink whose rendered order is
\* not the enumeration order
C14_Witness ==
    \E k \in 1..Len(listings) :
        /\ listings[k].result = "Ok"
        /\ listings[k].rendered # PassedFilter(listings[k].path)
        /\ \E a, b, c \in 1..Len(listings[k].rendered) :
              /\ listings[k].rendered[a].is_dir
              /\ listings[k].rendered[b].is_symlink
              /\ ~listings[k].rendered[c].is_dir /\ c # b
        /\ opt.reverse

====
